---- MODULE Spec2Model ----
(***************************************************************************)
(* Model of somebm25.py: the BM25WhooshSearch engine (scan, extraction,    *)
(* reconciliation through one Whoosh writer, search), the program's        *)
(* start-up path and the folder selection screen that runs update_index on *)
(* a worker thread.                                                        *)
(*                                                                         *)
(* The filesystem, the index directory "whoosh_index" (its committed       *)
(* snapshot and its write lock), every update_index generator, the worker  *)
(* threads and the Kivy clock are state.  update_index is a generator: its *)
(* body runs only while a consumer pulls a value, and it is suspended at   *)
(* each yield.                                                             *)
(*                                                                         *)
(* Spec is the engine used as a library: any client creates, pulls and     *)
(* drops generators and searches, while the environment changes files.     *)
(* AppSpec is the program: the start-up path, the screens, the worker      *)
(* thread and the clock, beside another client of the same index           *)
(* directory.                                                              *)
(***************************************************************************)
EXTENDS Naturals, Sequences, FiniteSets, TLC

\* ------------------------------------------------------------------ bounds
MaxRuns == 2        \* update_index generators that clients and the screen create
MaxFsChanges == 1   \* filesystem changes made by the environment
MaxToken == 2       \* distinct modification times a file can take

\* --------------------------------------------------------------- universe
\* Folders a BM25WhooshSearch can be given.  "temp" is the start-up folder;
\* "nodir" names no existing directory.
Roots == {"temp", "docs", "nodir"}

\* The files the environment creates, rewrites and removes.
Paths == {"temp/a.txt", "temp/b.txt", "docs/c.txt"}

\* Every file a folder can hold: "temp/d.txt" is there only when the
\* program starts on a folder prepared with three documents.
AllPaths == Paths \cup {"temp/d.txt"}

\* The folder a path lies under (os.walk(folder_path) reaches it from there).
FolderOf(p) == IF p = "docs/c.txt" THEN "docs" ELSE "temp"

\* The file name of a path.
BaseName(p) ==
    CASE p = "temp/a.txt" -> "a.txt"
      [] p = "temp/b.txt" -> "b.txt"
      [] p = "docs/c.txt" -> "c.txt"
      [] OTHER -> "d.txt"

\* Texts a readable file can hold, as the terms the analyzer yields; the
\* empty sequence is the empty string.
Texts == {<< >>, <<"alpha">>, <<"beta">>}

\* Query strings, as the terms the parser finds in them.
Queries == {<<"alpha">>, <<"temp">>}

\* One id per generator: the clients' and the screen's, and the start-up one.
Runs == 1..(MaxRuns + 1)

NoToken == 0        \* None: no stored modification time

Range(s) == {s[k] : k \in 1..Len(s)}

\* filepath_search=file: the tokens the analyzer makes of the path.
filepath_search(p) == <<FolderOf(p), BaseName(p)>>

\* The terms the filepath_search field of a document holds.
PathTerms(p) == Range(filepath_search(p))

\* All orders in which a directory walk can list the set S.
Orders(S) == {s \in [1..Cardinality(S) -> S] : Range(s) = S}

NoFile == [present |-> FALSE, mtime |-> NoToken, readable |-> FALSE, text |-> << >>]

EmptyScan == [p \in {} |-> NoToken]

EmptyWriter == [adds |-> {}, dels |-> {}]

\* No search made yet.  A result records the query, top_n, the hits and the
\* run whose writer was open when the search ran (0: none).
NoResults == [query |-> << >>, top_n |-> 0, hits |-> << >>, during |-> 0]

VARIABLES
    fs,             \* path -> the file there: present, mtime, readable, text
    fsChanges,      \* number of environment changes so far
    index,          \* the committed snapshot: a set of documents
    lock,           \* the run holding the index write lock, 0 when free
    nruns,          \* generators created so far
    consumer,       \* run -> who created it: "api", "main", "ui" ("none" yet)
    pc,             \* run -> position of the generator
    root,           \* run -> folder_path of its engine
    files_to_index, \* run -> its scan: path -> mtime
    order,          \* run -> the order the scan lists the files in
    i,              \* run -> files processed
    indexed_files,  \* run -> filepaths read from the index at the start
    writer,         \* run -> operations staged in its writer
    progress,       \* run -> values yielded so far
    extracted,      \* run -> path -> what the loop did for it
    snap,           \* run -> the committed snapshot when its writer opened
    commits,        \* the runs that committed, in commit order
    docnums,        \* the filepaths of the committed documents by document number
    arrival,        \* the filepaths of the committed documents by time of insertion
    results,        \* what the last search returned
    app,            \* the program: "main", "indexed", "running"
    tpc,            \* run -> position of the thread running run_indexing
    selected_folder,        \* app.selected_folder
    search_engine,          \* folder_path of app.search_engine
    screen,                 \* screen_manager.current
    folder_input_disabled,  \* folder_input.disabled
    select_disabled,        \* the Select Folder button's disabled
    clock,                  \* callbacks scheduled on the Kivy clock, in order
    progress_bar            \* the progress bar: shown, value, label

fsVars == <<fs, fsChanges>>

genVars == <<nruns, consumer, pc, root, files_to_index, order, i, indexed_files,
             writer, progress, extracted, snap>>

storeVars == <<index, lock, commits, docnums, arrival>>

uiVars == <<app, tpc, selected_folder, search_engine, screen, folder_input_disabled,
            select_disabled, clock, progress_bar>>

vars == <<fsVars, genVars, storeVars, results, uiVars>>

\* ----------------------------------------------------------- pure helpers

\* get_all_files: every file under the folder with its modification time.
\* os.walk of a path that is no directory yields nothing.
get_all_files(folder, f) ==
    [p \in {q \in AllPaths : FolderOf(q) = folder /\ f[q].present} |-> f[p].mtime]

\* extract_text: the text, or None when opening or parsing raises.
extract_text(f, p) ==
    IF f[p].present /\ f[p].readable
    THEN [none |-> FALSE, text |-> f[p].text]
    ELSE [none |-> TRUE, text |-> << >>]

\* Mutant: the test is `if content is not None:`.
Truthy_NotNone(content) == ~content.none

\* `if content:` -- None and the empty string are both false.
Truthy(content) == ~content.none /\ content.text # << >>

\* Mutant: the stored value is never found.
get_file_mod_time_NotStored(idx, filepath) == NoToken

\* get_file_mod_time: the stored modified value of the document with this
\* filepath, None when there is none.
get_file_mod_time(idx, filepath) ==
    IF \E d \in idx : d.filepath = filepath
    THEN (CHOOSE d \in idx : d.filepath = filepath).modified
    ELSE NoToken

\* Mutant: every scanned file is extracted again.
NeedsExtract_Always(file, mod_time, indexed, idx) == TRUE

\* The condition of line 146.
NeedsExtract(file, mod_time, indexed, idx) ==
    file \notin indexed \/ mod_time # get_file_mod_time(idx, file)

\* Mutant: writer.add_document, which deletes nothing.
update_document_AddOnly(w, doc) == [adds |-> w.adds \cup {doc}, dels |-> w.dels]

\* writer.update_document: filepath is unique, so the documents already
\* holding it are deleted and the new one is added.
update_document(w, doc) ==
    [adds |-> {d \in w.adds : d.filepath # doc.filepath} \cup {doc},
     dels |-> w.dels \cup {doc.filepath}]

\* Mutant: the deletion is not staged.
delete_by_term_Nothing(w, p) == w

\* writer.delete_by_term("filepath", p).
delete_by_term(w, p) == [w EXCEPT !.dels = @ \cup {p}]

\* Mutant: a failed extraction strikes the existing record.
StageFile_DeleteOnFailure(w, content, doc) ==
    IF Truthy(content) THEN update_document(w, doc) ELSE delete_by_term(w, doc.filepath)

\* Mutant: the content is staged without the `if content:` test.
StageFile_Unchecked(w, content, doc) == update_document(w, doc)

\* Lines 148-154: stage the upsert when the extracted content is true,
\* stage nothing otherwise.
StageFile(w, content, doc) ==
    IF Truthy(content) THEN update_document(w, doc) ELSE w

\* Mutant: nothing is staged for the vanished files.
StageDeletions_None(w, indexed, scan) == w

\* Lines 160-162: the deletions staged for the vanished files.
StageDeletions(w, indexed, scan) ==
    LET gone == {p \in indexed : p \notin DOMAIN scan}
        Stage[S \in SUBSET gone] ==
            IF S = {} THEN w ELSE LET p == CHOOSE x \in S : TRUE
                                  IN  delete_by_term(Stage[S \ {p}], p)
    IN  Stage[gone]

\* Mutant: the commit writes the additions and forgets the deletions.
commit_AddsOnly(idx, w) == idx \cup w.adds

\* writer.commit: deletions strike committed documents, additions follow.
commit(idx, w) == {d \in idx : d.filepath \notin w.dels} \cup w.adds

\* Mutant: each staged operation is written through at once.
VisibleWhileStaging_WriteThrough(idx, w) ==
    {d \in idx : d.filepath \notin w.dels} \cup w.adds

\* What readers of the index directory see while a writer only stages.
VisibleWhileStaging(idx, w) == idx

\* Mutant: dropping the writer commits what it staged.
IndexAfterDrop_Commits(idx, w) ==
    {d \in idx : d.filepath \notin w.dels} \cup w.adds

\* What the index directory holds once an uncommitted writer is dropped.
IndexAfterDrop(idx, w) == idx

\* Mutant: the writer is opened without the lock.
CanAcquire_Always(l) == TRUE

\* idx.writer(): the write lock is taken without waiting; LockError if held.
CanAcquire(l) == l = 0

\* Mutant: the loop counts from 0.
ProgressValue_FromZero(k, total) == [num |-> (k - 1) * 100, den |-> total]

\* Line 157: (i / total_files) * 100, kept as an exact fraction.
ProgressValue(k, total) == [num |-> k * 100, den |-> total]

Final100 == [num |-> 100, den |-> 1]

\* ProgressBar(max=100, value=0).
Zero == [num |-> 0, den |-> 1]

\* The filepaths that have a document in a snapshot.
PathsOf(idx) == {d.filepath : d \in idx}

\* writer.commit with the default merge policy, on an index of a few
\* documents: the documents the writer added come first, in the order they
\* were added, and the documents kept from the segments it merges follow in
\* their old order.
DocnumsAfterCommit(dn, w, ord) ==
    LET added(p) == p \in PathsOf(w.adds)
        kept(p) == p \notin w.dels
    IN  SelectSeq(ord, added) \o SelectSeq(dn, kept)

\* The committed documents in the order they were inserted: the ones kept,
\* then the ones this writer added.
ArrivalAfterCommit(arr, w, ord) ==
    LET added(p) == p \in PathsOf(w.adds)
        kept(p) == p \notin w.dels
    IN  SelectSeq(arr, kept) \o SelectSeq(ord, added)

\* ---------------------------------------------------------------- search
\* MultifieldParser(["content", "filepath_search"]).
Fields == {"content", "filepath_search"}

\* The tokens a document holds in a field.
FieldOf(d, f) == IF f = "content" THEN d.content ELSE filepath_search(d.filepath)

\* Occurrences of term t in the token sequence s.
Count(s, t) == Cardinality({k \in 1..Len(s) : s[k] = t})

\* A term of the query becomes the Or of the term in each field.
TermMatches(d, t) == \E f \in Fields : Count(FieldOf(d, f), t) > 0

\* parser.parse(query): the parser's default group is And, so a document
\* matches when each term of the query matches it.
Matches(d, query) ==
    /\ query # << >>
    /\ \A k \in 1..Len(query) : TermMatches(d, query[k])

\* BM25F(): B = 0.75, K1 = 1.2.
B == [num |-> 3, den |-> 4]

K1 == [num |-> 6, den |-> 5]

\* searcher.idf: log(dc / (n + 1)) + 1 for dc documents of which n hold the
\* term, in thousandths.
idf(dc, n) ==
    CASE dc = 1 -> 307
      [] dc = 2 /\ n = 1 -> 1000
      [] dc = 2 -> 595
      [] dc = 3 /\ n = 1 -> 1405
      [] dc = 3 /\ n = 2 -> 1000
      [] dc = 3 -> 712
      [] dc = 4 /\ n = 1 -> 1693
      [] dc = 4 /\ n = 2 -> 1288
      [] dc = 4 /\ n = 3 -> 1000
      [] OTHER -> 777

\* Mutant: the term frequency is left out of the weight.
bm25_NoTf(idfv, tf, fl, total, dc) ==
    (idfv * (K1.num + K1.den) * B.den * total)
        \div (K1.den * B.den * total
                + K1.num * ((B.den - B.num) * total + B.num * fl * dc))

\* idf * tf * (K1 + 1) / (tf + K1 * ((1 - B) + B * fl / avgfl)), where avgfl
\* is total / dc, in thousandths.
bm25(idfv, tf, fl, total, dc) ==
    (idfv * tf * (K1.num + K1.den) * B.den * total)
        \div (tf * K1.den * B.den * total
                + K1.num * ((B.den - B.num) * total + B.num * fl * dc))

\* The sum of the field lengths of the index.
TotalLength(idx, f) ==
    LET T[S \in SUBSET idx] ==
            IF S = {} THEN 0
            ELSE LET d == CHOOSE x \in S : TRUE
                 IN  Len(FieldOf(d, f)) + T[S \ {d}]
    IN  T[idx]

\* The score of term t in field f of document d: nothing when the field
\* does not hold the term.
TermScore(idx, d, f, t) ==
    LET tf == Count(FieldOf(d, f), t)
        n == Cardinality({e \in idx : Count(FieldOf(e, f), t) > 0})
    IN  IF tf = 0 THEN 0
        ELSE bm25(idf(Cardinality(idx), n), tf, Len(FieldOf(d, f)),
                  TotalLength(idx, f), Cardinality(idx))

\* hit.score: the scores of the query's terms in both fields, added.
score(idx, d, query) ==
    LET S[k \in 0..Len(query)] ==
            IF k = 0 THEN 0
            ELSE S[k - 1] + TermScore(idx, d, "content", query[k])
                          + TermScore(idx, d, "filepath_search", query[k])
    IN  S[Len(query)]

\* The document number of a committed document.
Docnum(dn, d) == CHOOSE k \in 1..Len(dn) : dn[k] = d.filepath

\* Mutant: the collector stops after the first top_n matching documents.
Candidates_FirstN(M, dn, top_n) ==
    {d \in M : Cardinality({e \in M : Docnum(dn, e) < Docnum(dn, d)}) < top_n}

\* searcher.search(parsed_query, limit=top_n): every matching document is
\* collected before the best top_n are kept.
Candidates(M, dn, top_n) == M

\* search: the (filepath, score) pairs of the top_n best matching
\* documents, best first; of two documents with one score the one with the
\* lower document number comes first.
search(idx, dn, query, top_n) ==
    LET M == Candidates({d \in idx : Matches(d, query)}, dn, top_n)
        sc == [d \in M |-> score(idx, d, query)]
        Before(e, d) ==
            \/ sc[e] > sc[d]
            \/ sc[e] = sc[d] /\ Docnum(dn, e) < Docnum(dn, d)
        Rank(d) == Cardinality({e \in M : Before(e, d)}) + 1
        n == IF top_n < Cardinality(M) THEN top_n ELSE Cardinality(M)
    IN  [k \in 1..n |->
            LET d == CHOOSE x \in M : Rank(x) = k
            IN  [filepath |-> d.filepath, score |-> sc[d]]]

\* The filepaths of a result list.
HitPaths(hits) == {hits[k].filepath : k \in 1..Len(hits)}

\* search's default top_n, and the one perform_search passes.
DefaultTopN == 10

UiTopN == 1000

\* Button.disabled: a disabled widget dispatches no on_press.
CanPress(disabled) == ~disabled

\* ------------------------------------------------------------------- Init
\* The files the folders can hold at the start: temp/a.txt may be a document
\* no extractor can open, temp/b.txt may not exist yet.
InitFile(p) ==
    LET file(r, txt) == [present |-> TRUE, mtime |-> 1, readable |-> r, text |-> txt]
    IN  CASE p = "temp/a.txt" -> {file(r, <<"alpha">>) : r \in BOOLEAN}
          [] p = "temp/b.txt" -> {NoFile, file(TRUE, <<"beta">>)}
          [] p = "docs/c.txt" -> {file(TRUE, <<"alpha">>)}
          [] OTHER -> {NoFile}

\* Everything but the files: a new index directory, no engine, no generator,
\* the program not started.
Fresh ==
    /\ fsChanges = 0
    /\ index = {}
    /\ lock = 0
    /\ nruns = 0
    /\ consumer = [u \in Runs |-> "none"]
    /\ pc = [u \in Runs |-> "none"]
    /\ root = [u \in Runs |-> "temp"]
    /\ files_to_index = [u \in Runs |-> EmptyScan]
    /\ order = [u \in Runs |-> << >>]
    /\ i = [u \in Runs |-> 0]
    /\ indexed_files = [u \in Runs |-> {}]
    /\ writer = [u \in Runs |-> EmptyWriter]
    /\ progress = [u \in Runs |-> << >>]
    /\ extracted = [u \in Runs |-> [p \in {} |-> "skipped"]]
    /\ snap = [u \in Runs |-> {}]
    /\ commits = << >>
    /\ docnums = << >>
    /\ arrival = << >>
    /\ results = NoResults
    /\ app = "main"
    /\ tpc = [u \in Runs |-> "none"]
    /\ selected_folder = "temp"
    /\ search_engine = "temp"
    /\ screen = "search"
    /\ folder_input_disabled = FALSE
    /\ select_disabled = FALSE
    /\ clock = << >>
    /\ progress_bar = [shown |-> FALSE, value |-> Zero, label |-> Zero]

Init ==
    /\ fs \in {f \in [AllPaths -> UNION {InitFile(p) : p \in AllPaths}] :
                 \A p \in AllPaths : f[p] \in InitFile(p)}
    /\ Fresh

\* ------------------------------------------------------------ environment
\* A file is written (created if absent): new text and a new mtime.  What
\* is written may be a document no extractor can open (a corrupt PDF).
FsWrite(p, m, r, txt) ==
    /\ fsChanges < MaxFsChanges
    /\ m # fs[p].mtime
    /\ ~r => txt = << >>
    /\ fs' = [fs EXCEPT ![p] = [present |-> TRUE, mtime |-> m, readable |-> r, text |-> txt]]
    /\ fsChanges' = fsChanges + 1
    /\ UNCHANGED <<genVars, storeVars, results, uiVars>>

\* A file's readability changes (permissions, a lock by another program, a
\* repaired or damaged document library): its mtime does not.
FsChmod(p) ==
    /\ fsChanges < MaxFsChanges
    /\ fs[p].present
    /\ fs' = [fs EXCEPT ![p].readable = ~@]
    /\ fsChanges' = fsChanges + 1
    /\ UNCHANGED <<genVars, storeVars, results, uiVars>>

FsRemove(p) ==
    /\ fsChanges < MaxFsChanges
    /\ fs[p].present
    /\ fs' = [fs EXCEPT ![p] = NoFile]
    /\ fsChanges' = fsChanges + 1
    /\ UNCHANGED <<genVars, storeVars, results, uiVars>>

\* ----------------------------------------------------------- update_index
\* A generator is created for a consumer: calling a generator function runs
\* none of its body.
NewGenerator(u, who, folder) ==
    /\ u = nruns + 1
    /\ nruns' = nruns + 1
    /\ consumer' = [consumer EXCEPT ![u] = who]
    /\ pc' = [pc EXCEPT ![u] = "created"]
    /\ root' = [root EXCEPT ![u] = folder]

\* BM25WhooshSearch(folder).update_index(idx), called by a library client.
CreateGenerator(folder) ==
    /\ Cardinality({u \in Runs : consumer[u] \in {"api", "ui"}}) < MaxRuns
    /\ NewGenerator(nruns + 1, "api", folder)
    /\ UNCHANGED <<fsVars, storeVars, results, uiVars, files_to_index, order, i,
                   indexed_files, writer, progress, extracted, snap>>

\* Lines 135-142, on the first pull: open the writer, scan, read the index.
\* LockError is not caught: it ends the generator, and the thread pulling it.
Start(u) ==
    /\ pc[u] = "created"
    /\ IF CanAcquire(lock)
       THEN /\ lock' = u
            /\ pc' = [pc EXCEPT ![u] = "loop"]
            /\ files_to_index' = [files_to_index EXCEPT ![u] = get_all_files(root[u], fs)]
            /\ \E s \in Orders(DOMAIN get_all_files(root[u], fs)) :
                   order' = [order EXCEPT ![u] = s]
            /\ indexed_files' = [indexed_files EXCEPT ![u] = PathsOf(index)]
            /\ snap' = [snap EXCEPT ![u] = index]
            /\ tpc' = tpc
       ELSE /\ pc' = [pc EXCEPT ![u] = "failed"]
            /\ tpc' = [tpc EXCEPT ![u] = IF consumer[u] = "ui" THEN "dead" ELSE @]
            /\ UNCHANGED <<lock, files_to_index, order, indexed_files, snap>>
    /\ UNCHANGED <<fsVars, index, commits, docnums, arrival, results, nruns, consumer,
                   root, i, writer, progress, extracted, app, selected_folder,
                   search_engine, screen,
                   folder_input_disabled, select_disabled, clock, progress_bar>>

\* Lines 145-157: one iteration of the loop, up to its yield.  The worker
\* thread schedules update_progress for the value it receives (line 245).
ProcessFile(u) ==
    /\ pc[u] = "loop"
    /\ i[u] < Len(order[u])
    /\ LET file == order[u][i[u] + 1]
           mod_time == files_to_index[u][file]
           content == extract_text(fs, file)
           doc == [filepath |-> file, modified |-> mod_time, content |-> content.text]
       IN  IF NeedsExtract(file, mod_time, indexed_files[u], index)
           THEN /\ writer' = [writer EXCEPT ![u] = StageFile(@, content, doc)]
                /\ extracted' = [extracted EXCEPT ![u] =
                                   [p \in DOMAIN @ \cup {file} |->
                                      IF p # file THEN @[p]
                                      ELSE IF content.none THEN "none"
                                      ELSE IF content.text = << >> THEN "empty"
                                      ELSE "text"]]
                /\ index' = VisibleWhileStaging(index, writer'[u])
           ELSE /\ extracted' = [extracted EXCEPT ![u] =
                                   [p \in DOMAIN @ \cup {file} |->
                                      IF p # file THEN @[p] ELSE "skipped"]]
                /\ UNCHANGED <<writer, index>>
    /\ i' = [i EXCEPT ![u] = @ + 1]
    /\ progress' = [progress EXCEPT ![u] = Append(@, ProgressValue(i[u] + 1, Len(order[u])))]
    /\ clock' = IF consumer[u] = "ui"
                THEN Append(clock, [f |-> "update_progress",
                                    p |-> ProgressValue(i[u] + 1, Len(order[u]))])
                ELSE clock
    /\ UNCHANGED <<fsVars, lock, commits, docnums, arrival, results, nruns, consumer,
                   pc, root, files_to_index, order, indexed_files, snap, app, tpc,
                   selected_folder,
                   search_engine, screen, folder_input_disabled, select_disabled,
                   progress_bar>>

\* Lines 160-164: stage the deletions and commit; the lock is released.
Commit(u) ==
    /\ pc[u] = "loop"
    /\ i[u] = Len(order[u])
    /\ writer' = [writer EXCEPT ![u] = StageDeletions(@, indexed_files[u], files_to_index[u])]
    /\ index' = commit(index, writer'[u])
    /\ docnums' = DocnumsAfterCommit(docnums, writer'[u], order[u])
    /\ arrival' = ArrivalAfterCommit(arrival, writer'[u], order[u])
    /\ lock' = 0
    /\ commits' = Append(commits, u)
    /\ pc' = [pc EXCEPT ![u] = "committed"]
    /\ UNCHANGED <<fsVars, results, uiVars, nruns, consumer, root, files_to_index, order,
                   i, indexed_files, progress, extracted, snap>>

\* Line 165: the final yield.  The worker thread schedules update_progress
\* for it (line 245) and leaves the loop.
FinalYield(u) ==
    /\ pc[u] = "committed"
    /\ pc' = [pc EXCEPT ![u] = "done"]
    /\ progress' = [progress EXCEPT ![u] = Append(@, Final100)]
    /\ clock' = IF consumer[u] = "ui"
                THEN Append(clock, [f |-> "update_progress", p |-> Final100])
                ELSE clock
    /\ tpc' = [tpc EXCEPT ![u] = IF consumer[u] = "ui" THEN "line248" ELSE @]
    /\ UNCHANGED <<fsVars, storeVars, results, nruns, consumer, root, files_to_index,
                   order, i, indexed_files, writer, extracted, snap, app, selected_folder,
                   search_engine, screen, folder_input_disabled, select_disabled,
                   progress_bar>>

\* A library client stops pulling: before the first pull, or at a yield of
\* the loop.  The generator and its writer stay alive until collected.
Abandon(u) ==
    /\ consumer[u] = "api"
    /\ \/ pc[u] = "created"
       \/ pc[u] = "loop" /\ i[u] >= 1
    /\ pc' = [pc EXCEPT ![u] = "abandoned"]
    /\ UNCHANGED <<fsVars, storeVars, results, uiVars, nruns, consumer, root,
                   files_to_index, order, i, indexed_files, writer, progress, extracted,
                   snap>>

\* The abandoned generator is collected: its writer is dropped without
\* commit and the lock it held is released.
Collect(u) ==
    /\ pc[u] = "abandoned"
    /\ pc' = [pc EXCEPT ![u] = "closed"]
    /\ lock' = IF lock = u THEN 0 ELSE lock
    /\ index' = IndexAfterDrop(index, writer[u])
    /\ UNCHANGED <<fsVars, commits, docnums, arrival, results, uiVars, nruns, consumer,
                   root, files_to_index, order, i, indexed_files, writer, progress,
                   extracted, snap>>

\* search(query, top_n): reads the committed snapshot.
Search(q, top_n) ==
    /\ results' = [query |-> q, top_n |-> top_n,
                   hits |-> search(index, docnums, q, top_n), during |-> lock]
    /\ UNCHANGED <<fsVars, genVars, storeVars, uiVars>>

Next ==
    \/ \E p \in Paths, m \in 1..MaxToken, r \in BOOLEAN, txt \in Texts : FsWrite(p, m, r, txt)
    \/ \E p \in Paths : FsChmod(p)
    \/ \E p \in Paths : FsRemove(p)
    \/ \E folder \in Roots : CreateGenerator(folder)
    \/ \E u \in Runs : Start(u)
    \/ \E u \in Runs : ProcessFile(u)
    \/ \E u \in Runs : Commit(u)
    \/ \E u \in Runs : FinalYield(u)
    \/ \E u \in Runs : Abandon(u)
    \/ \E u \in Runs : Collect(u)
    \/ \E q \in Queries : Search(q, DefaultTopN)

Spec == Init /\ [][Next]_vars

\* ------------------------------------------------- searching a small folder
\* The engine on a folder of documents of a few words each: a client runs
\* updates of "temp" to the end, one after the other, and between them
\* searches any query with any top_n, while temp/d.txt is written.
ScenarioTexts == {<<"alpha", "beta">>, <<"alpha", "alpha", "gamma">>, <<"delta">>}

MultiTermQueries == {<<"alpha", "beta">>}

TopNs == {1, DefaultTopN}

ScenarioFile(p) ==
    LET file(txt) == [present |-> TRUE, mtime |-> 1, readable |-> TRUE, text |-> txt]
    IN  CASE p = "temp/a.txt" -> {file(<<"alpha", "beta">>)}
          [] p = "temp/b.txt" -> {file(<<"alpha", "alpha", "gamma">>)}
          [] p = "temp/d.txt" -> {NoFile, file(<<"delta">>)}
          [] OTHER -> {file(<<"alpha">>)}

\* The client is between two updates.
Idle == \A u \in Runs : pc[u] \in {"none", "done"}

QueryInit ==
    /\ fs \in {f \in [AllPaths -> UNION {ScenarioFile(p) : p \in AllPaths}] :
                 \A p \in AllPaths : f[p] \in ScenarioFile(p)}
    /\ Fresh

QueryNext ==
    \/ \E m \in 1..MaxToken, txt \in ScenarioTexts : FsWrite("temp/d.txt", m, TRUE, txt)
    \/ Idle /\ CreateGenerator("temp")
    \/ \E u \in Runs : Start(u)
    \/ \E u \in Runs : ProcessFile(u)
    \/ \E u \in Runs : Commit(u)
    \/ \E u \in Runs : FinalYield(u)
    \/ Idle /\ \E q \in Queries \cup MultiTermQueries, top_n \in TopNs : Search(q, top_n)

QuerySpec == QueryInit /\ [][QueryNext]_vars

\* ------------------------------------------------------------- the program
\* Lines 466-469: the engine for "temp" is built and update_index is called.
\* The generator it returns is not iterated and not kept: it is collected
\* without having run.
MainIndex ==
    /\ app = "main"
    /\ app' = "indexed"
    /\ nruns' = nruns + 1
    /\ consumer' = [consumer EXCEPT ![nruns + 1] = "main"]
    /\ pc' = [pc EXCEPT ![nruns + 1] = "closed"]
    /\ root' = [root EXCEPT ![nruns + 1] = "temp"]
    /\ UNCHANGED <<fsVars, storeVars, results, files_to_index, order, i, indexed_files,
                   writer, progress, extracted, snap, tpc, selected_folder,
                   search_engine, screen, folder_input_disabled, select_disabled, clock,
                   progress_bar>>

\* Line 471: SearchApp(search_engine).run() builds the screens; the first
\* one added, 'search', is shown.
RunApp ==
    /\ app = "indexed"
    /\ app' = "running"
    /\ UNCHANGED <<fsVars, genVars, storeVars, results, tpc, selected_folder,
                   search_engine, screen, folder_input_disabled, select_disabled, clock,
                   progress_bar>>

\* SearchApp.switch_to_folder_selection, bound to 'Change Folder'.
SwitchToFolderSelection ==
    /\ app = "running"
    /\ screen = "search"
    /\ screen' = "folder_selection"
    /\ UNCHANGED <<fsVars, genVars, storeVars, results, app, tpc, selected_folder,
                   search_engine, folder_input_disabled, select_disabled, clock,
                   progress_bar>>

\* FolderSelectionScreen.update_folder: the text typed into folder_input.
UpdateFolder(text) ==
    /\ app = "running"
    /\ screen = "folder_selection"
    /\ CanPress(folder_input_disabled)
    /\ selected_folder' = text
    /\ UNCHANGED <<fsVars, genVars, storeVars, results, app, tpc, search_engine, screen,
                   folder_input_disabled, select_disabled, clock, progress_bar>>

\* FolderSelectionScreen.update_folder_selection: a folder picked in the
\* file chooser, which is never disabled.
UpdateFolderSelection(selection) ==
    /\ app = "running"
    /\ screen = "folder_selection"
    /\ selected_folder' = selection
    /\ UNCHANGED <<fsVars, genVars, storeVars, results, app, tpc, search_engine, screen,
                   folder_input_disabled, select_disabled, clock, progress_bar>>

\* FolderSelectionScreen.confirm_selection: with a folder selected, disable
\* the input and the button, build the engine, show the bar and start the
\* thread that runs run_indexing.
ConfirmSelection ==
    /\ app = "running"
    /\ screen = "folder_selection"
    /\ CanPress(select_disabled)
    /\ IF selected_folder = ""
       THEN UNCHANGED vars
       ELSE /\ Cardinality({u \in Runs : consumer[u] \in {"api", "ui"}}) < MaxRuns
            /\ folder_input_disabled' = TRUE
            /\ select_disabled' = TRUE
            /\ search_engine' = selected_folder
            /\ progress_bar' = [shown |-> TRUE, value |-> Zero, label |-> Zero]
            /\ NewGenerator(nruns + 1, "ui", selected_folder)
            /\ tpc' = [tpc EXCEPT ![nruns + 1] = "iterating"]
            /\ UNCHANGED <<fsVars, storeVars, results, files_to_index, order, i,
                           indexed_files, writer, progress, extracted, snap, app,
                           selected_folder, screen, clock>>

\* Line 248, after the loop.
Worker248(u) ==
    /\ tpc[u] = "line248"
    /\ clock' = Append(clock, [f |-> "update_progress", p |-> Final100])
    /\ tpc' = [tpc EXCEPT ![u] = "line249"]
    /\ UNCHANGED <<fsVars, genVars, storeVars, results, app, selected_folder,
                   search_engine, screen, folder_input_disabled, select_disabled,
                   progress_bar>>

\* Line 249; the thread ends.
Worker249(u) ==
    /\ tpc[u] = "line249"
    /\ clock' = Append(clock, [f |-> "unlock_ui", p |-> Final100])
    /\ tpc' = [tpc EXCEPT ![u] = "exit"]
    /\ UNCHANGED <<fsVars, genVars, storeVars, results, app, selected_folder,
                   search_engine, screen, folder_input_disabled, select_disabled,
                   progress_bar>>

\* The clock runs the callback scheduled first.  update_progress (lines
\* 239-241) schedules the two setattr calls; unlock_ui is lines 251-256.
ClockTick ==
    /\ app = "running"
    /\ clock # << >>
    /\ LET cb == Head(clock)
       IN  CASE cb.f = "update_progress" ->
                    /\ clock' = Tail(clock) \o <<[f |-> "set_value", p |-> cb.p],
                                                 [f |-> "set_label", p |-> cb.p]>>
                    /\ UNCHANGED <<progress_bar, folder_input_disabled, select_disabled,
                                   screen>>
             [] cb.f = "set_value" ->
                    /\ clock' = Tail(clock)
                    /\ progress_bar' = [progress_bar EXCEPT !.value = cb.p]
                    /\ UNCHANGED <<folder_input_disabled, select_disabled, screen>>
             [] cb.f = "set_label" ->
                    /\ clock' = Tail(clock)
                    /\ progress_bar' = [progress_bar EXCEPT !.label = cb.p]
                    /\ UNCHANGED <<folder_input_disabled, select_disabled, screen>>
             [] cb.f = "unlock_ui" ->
                    /\ clock' = Tail(clock)
                    /\ progress_bar' = [progress_bar EXCEPT !.shown = FALSE]
                    /\ folder_input_disabled' = FALSE
                    /\ select_disabled' = FALSE
                    /\ screen' = "search"
    /\ UNCHANGED <<fsVars, genVars, storeVars, results, app, tpc, selected_folder,
                   search_engine>>

\* SearchScreen.perform_search, bound to 'Search'.
PerformSearch(q) ==
    /\ app = "running"
    /\ screen = "search"
    /\ Search(q, UiTopN)

AppNext ==
    \/ MainIndex
    \/ RunApp
    \/ SwitchToFolderSelection
    \/ \E text \in Roots \cup {""} : UpdateFolder(text)
    \/ \E selection \in Roots \ {"nodir"} : UpdateFolderSelection(selection)
    \/ ConfirmSelection
    \/ \E u \in Runs : Worker248(u)
    \/ \E u \in Runs : Worker249(u)
    \/ ClockTick
    \/ \E q \in Queries : PerformSearch(q)
    \/ \E folder \in Roots : CreateGenerator(folder)
    \/ \E u \in Runs : Start(u)
    \/ \E u \in Runs : ProcessFile(u)
    \/ \E u \in Runs : Commit(u)
    \/ \E u \in Runs : FinalYield(u)
    \/ \E u \in Runs : Abandon(u)
    \/ \E u \in Runs : Collect(u)

\* The program starts with readable files in both folders.
AppInit == Init /\ \A p \in Paths : fs[p].present /\ fs[p].readable

AppSpec == AppInit /\ [][AppNext]_vars

\* The steps of the thread that runs run_indexing for generator u.
ThreadStep(u) ==
    /\ consumer[u] = "ui"
    /\ \/ Start(u) \/ ProcessFile(u) \/ Commit(u) \/ FinalYield(u)
       \/ Worker248(u) \/ Worker249(u)

\* The program beside another client of the index directory, the user doing
\* everything but searching.
LiveNext ==
    \/ MainIndex
    \/ RunApp
    \/ SwitchToFolderSelection
    \/ \E text \in Roots \cup {""} : UpdateFolder(text)
    \/ \E selection \in Roots \ {"nodir"} : UpdateFolderSelection(selection)
    \/ ConfirmSelection
    \/ \E u \in Runs : Worker248(u)
    \/ \E u \in Runs : Worker249(u)
    \/ ClockTick
    \/ \E folder \in Roots : CreateGenerator(folder)
    \/ \E u \in Runs : Start(u)
    \/ \E u \in Runs : ProcessFile(u)
    \/ \E u \in Runs : Commit(u)
    \/ \E u \in Runs : FinalYield(u)
    \/ \E u \in Runs : Abandon(u)
    \/ \E u \in Runs : Collect(u)

\* The operating system runs a started thread until it ends, and the Kivy
\* main loop runs the scheduled callbacks.  Nothing obliges the user or the
\* other client to act.
LiveSpec ==
    /\ AppInit
    /\ [][LiveNext]_vars
    /\ \A u \in Runs : WF_vars(ThreadStep(u))
    /\ WF_vars(ClockTick)

\* ------------------------------------------------------- claim vocabulary
Last(s) == s[Len(s)]

DocsOf(idx, p) == {d \in idx : d.filepath = p}

\* The step in which run u commits.
CommitStep(u) == pc[u] = "loop" /\ pc'[u] = "committed"

\* Run u has opened its writer and has neither committed nor been dropped.
InFlight(u) == lock = u

\* What the loop called the extractor for, and what it got.
Called(u, p) == p \in DOMAIN extracted[u] /\ extracted[u][p] # "skipped"

\* The run that committed last has the same folder and the same scan as u.
SameScanAsLast(u) ==
    /\ Len(commits) >= 1
    /\ root[Last(commits)] = root[u]
    /\ files_to_index[Last(commits)] = files_to_index[u]

\* No file that gave no text in the last committed run gives text to u.
SameFailures(u) ==
    \A p \in DOMAIN extracted[Last(commits)] :
        extracted[Last(commits)][p] \in {"none", "empty"} => extracted[u][p] # "text"

\* C1 as claimed: when two updates commit one after the other on identical
\* scans (same paths, same modified tokens), the second stages no upsert and
\* no deletion and leaves the committed index as the first left it.
C1_IdempotentOnSameScan ==
    [][\A u \in Runs : (CommitStep(u) /\ SameScanAsLast(u)) =>
          (writer'[u] = EmptyWriter /\ index' = index)]_vars

\* C1 amended: idempotence of update.  When two updates commit one after the
\* other on identical scans and every file that yielded None or empty text in
\* the first yields None or empty text again in the second, the second stages
\* no upsert and no deletion and the committed index is unchanged.
C1_Idempotent ==
    [][\A u \in Runs : (CommitStep(u) /\ SameScanAsLast(u) /\ SameFailures(u)) =>
          (writer'[u] = EmptyWriter /\ index' = index)]_vars

C1_Witness ==
    \E u \in Runs :
        /\ pc[u] = "committed"
        /\ Len(commits) = 2 /\ commits[2] = u
        /\ root[commits[1]] = root[u]
        /\ files_to_index[commits[1]] = files_to_index[u]
        /\ Cardinality(DOMAIN files_to_index[u]) = 2
        /\ snap[u] # {}
        /\ \E p \in DOMAIN extracted[u] : extracted[u][p] = "none"
        /\ writer[u] = EmptyWriter
        /\ index = snap[u]

\* C2 as claimed: a path scanned with the same modified token by two
\* consecutive committing runs is not extracted by the second.
C2_SkipOnSameScanToken ==
    \A k \in 2..Len(commits) :
        LET u1 == commits[k - 1]
            u2 == commits[k]
        IN  \A p \in DOMAIN files_to_index[u1] \cap DOMAIN files_to_index[u2] :
                files_to_index[u2][p] = files_to_index[u1][p] => ~Called(u2, p)

\* C2 amended: incremental correctness.  A scanned path that has a document
\* in the committed index whose stored modified token equals the scanned one
\* is never handed to the extractor by that run.
C2_SkipWhenStoredTokenMatches ==
    \A u \in Runs : \A p \in DOMAIN extracted[u] :
        (\E d \in snap[u] : d.filepath = p /\ d.modified = files_to_index[u][p])
            => extracted[u][p] = "skipped"

C2_Witness ==
    \E u \in Runs : \E p \in DOMAIN extracted[u] :
        /\ pc[u] = "done"
        /\ \E d \in snap[u] : d.filepath = p /\ d.modified = files_to_index[u][p]
        /\ extracted[u][p] = "skipped"

\* C3: deletion propagation.  When a run commits, every path with a document
\* in the committed index and absent from the run's scan has a staged
\* deletion, has no document afterwards, and is returned by no search.
C3_DeletionPropagation ==
    [][\A u \in Runs : CommitStep(u) =>
          \A p \in PathsOf(index) \ DOMAIN files_to_index[u] :
              /\ p \in writer'[u].dels
              /\ p \notin PathsOf(index')
              /\ \A q \in Queries :
                     p \notin HitPaths(search(index', docnums', q, DefaultTopN))]_vars

C3_Witness ==
    \E u \in Runs : \E p \in PathsOf(snap[u]) :
        /\ pc[u] = "committed"
        /\ p \notin DOMAIN files_to_index[u]
        /\ p \in writer[u].dels
        /\ p \notin PathsOf(index)

\* C4: snapshot atomicity.  A search that runs while run u has its writer
\* open returns what it returns on the snapshot committed before u started;
\* until u commits the committed index is that snapshot; and the commit
\* replaces it in one step by the snapshot with all of u's staged deletions
\* and upserts applied.
C4_SnapshotAtomicity ==
    [][/\ \A u \in Runs : (results' # results /\ results'.during = u) =>
              results'.hits = search(snap'[u], docnums', results'.query, results'.top_n)
       /\ \A u \in Runs : (InFlight(u) /\ ~CommitStep(u)) => index' = snap[u]
       /\ \A u \in Runs : CommitStep(u) =>
              /\ index = snap[u]
              /\ index' = {d \in snap[u] : d.filepath \notin writer'[u].dels}
                              \cup writer'[u].adds]_vars

\* A search made while u had staged an upsert that matches the query: the
\* staged document is not among the hits, a committed one is.
C4_Witness ==
    \E u \in Runs :
        /\ InFlight(u)
        /\ results.during = u
        /\ results.hits # << >>
        /\ \E d \in writer[u].adds :
               /\ Matches(d, results.query)
               /\ d.filepath \notin HitPaths(results.hits)

\* The indexing threads that have not reached the end of run_indexing.
LiveThreads == {u \in Runs : tpc[u] \in {"iterating", "line248", "line249"}}

UnlockPending == \E k \in 1..Len(clock) : clock[k].f = "unlock_ui"

\* C5: single writer.  A run in its loop holds the write lock, so no two are
\* in flight; a run that makes its first pull while the lock is held fails
\* and changes neither the index nor any writer; a commit applies to the
\* snapshot its run started from the operations of that run alone, each
\* upsert being a scanned path of the run with its scanned token.  In the UI
\* at most one indexing thread is alive: one is started only with the Select
\* Folder button enabled, which disables it, and the button is enabled
\* again only by unlock_ui, after every indexing thread has ended.
C5_SingleWriter ==
    [][/\ \A u \in Runs : pc'[u] = "loop" => lock' = u
       /\ \A u \in Runs :
              (pc[u] = "created" /\ pc'[u] \in {"loop", "failed"} /\ lock # 0) =>
                  /\ pc'[u] = "failed"
                  /\ UNCHANGED <<index, lock, writer, commits>>
       /\ \A u \in Runs : CommitStep(u) =>
              /\ lock = u
              /\ index' = {d \in snap[u] : d.filepath \notin writer'[u].dels}
                              \cup writer'[u].adds
              /\ \A d \in writer'[u].adds :
                     /\ d.filepath \in DOMAIN files_to_index[u]
                     /\ d.modified = files_to_index[u][d.filepath]
       /\ Cardinality(LiveThreads') <= 1
       /\ (\E u \in Runs : tpc[u] = "none" /\ tpc'[u] # "none") =>
              /\ ~select_disabled /\ select_disabled'
              /\ LiveThreads = {} /\ ~UnlockPending
       /\ (select_disabled /\ ~select_disabled') =>
              /\ Head(clock).f = "unlock_ui"
              /\ LiveThreads = {}]_vars

\* The screen's indexing thread has its writer open, the button is disabled,
\* and a client's update that started meanwhile has failed on the lock.
C5_Witness ==
    \E u, v \in Runs :
        /\ consumer[v] = "ui" /\ pc[v] = "loop" /\ lock = v
        /\ writer[v].adds # {}
        /\ select_disabled
        /\ consumer[u] = "api" /\ pc[u] = "failed"

\* C6: extraction failure does not delete.  When a run commits, a path that
\* had a document, was scanned, and for which extract_text returned None
\* keeps exactly the document it had; its stored modified token still
\* differs from the scanned one, so the next update extracts it again.
C6_FailureKeepsRecord ==
    [][\A u \in Runs : CommitStep(u) =>
          \A p \in DOMAIN extracted[u] :
              (extracted[u][p] = "none" /\ p \in PathsOf(index)) =>
                  /\ DocsOf(index', p) = DocsOf(index, p)
                  /\ DocsOf(index', p) # {}
                  /\ \A d \in DocsOf(index', p) :
                         d.modified # files_to_index[u][p]]_vars

C6_Witness ==
    \E u \in Runs : \E p \in DOMAIN extracted[u] :
        /\ pc[u] = "committed"
        /\ extracted[u][p] = "none"
        /\ DocsOf(snap[u], p) # {}
        /\ DocsOf(index, p) = DocsOf(snap[u], p)

C8_InvalidRootFails ==
    [][\A u \in Runs : root'[u] = "nodir" =>
          /\ pc'[u] \in {"none", "created", "failed", "abandoned", "closed"}
          /\ writer'[u] = EmptyWriter
          /\ (pc'[u] # pc[u] => index' = index)]_vars

\* C9: an abandoned update leaves the prior snapshot intact.  A run whose
\* consumer stopped pulling never commits and stays abandoned; the steps that
\* abandon and collect it leave the committed index unchanged, equal to the
\* snapshot from before the run while the run holds the write lock.
C9_AbandonedNeverCommits ==
    [][\A u \in Runs :
          /\ pc'[u] \in {"abandoned", "closed"} => u \notin Range(commits')
          /\ pc[u] \in {"abandoned", "closed"} => pc'[u] \in {"abandoned", "closed"}
          /\ (pc'[u] \in {"abandoned", "closed"} /\ pc'[u] # pc[u]) =>
                 /\ index' = index
                 /\ lock = u => index' = snap[u]]_vars

C9_Witness ==
    \E u \in Runs :
        /\ pc[u] = "closed"
        /\ writer[u].adds # {}
        /\ Len(progress[u]) = 1
        /\ index = snap[u]
        /\ lock = 0

\* a <= b for progress values.
LeqProgress(a, b) == a.num * b.den <= b.num * a.den

\* C10: the progress sequence.  For a scan of n files the values yielded so
\* far are the first ones of (1/n)*100, ..., (n/n)*100, 100; the final 100 is
\* there only once the run has committed; every value lies between 0 and 100
\* and none is smaller than the one before; a finished run has yielded all
\* n + 1 of them.
C10_ProgressSequence ==
    \A u \in Runs :
        LET n == Len(order[u])
            s == progress[u]
        IN  /\ Len(s) <= n + 1
            /\ Len(s) = i[u] + (IF pc[u] = "done" THEN 1 ELSE 0)
            /\ \A k \in 1..Len(s) :
                   /\ s[k].den > 0
                   /\ s[k].num <= 100 * s[k].den
                   /\ IF k <= n
                      THEN s[k].num * n = k * 100 * s[k].den
                      ELSE s[k] = Final100 /\ u \in Range(commits)
            /\ \A k \in 1..(Len(s) - 1) : LeqProgress(s[k], s[k + 1])
            /\ pc[u] = "done" => Len(s) = n + 1

C10_Witness ==
    \E u \in Runs :
        /\ pc[u] = "done"
        /\ Len(order[u]) = 2
        /\ Len(progress[u]) = 3
        /\ progress[u][1] = [num |-> 100, den |-> 2]
        /\ progress[u][3] = Final100

\* Run u has opened its writer on an existing directory that holds no file.
EmptyRootRun(u) ==
    /\ root[u] \in {"temp", "docs"}
    /\ pc[u] \in {"loop", "committed", "done"}
    /\ files_to_index[u] = EmptyScan

\* C11: empty root.  An update on a directory that contains no files
\* processes no file and yields nothing before its commit, cannot be dropped
\* half-way and does not fail; its commit leaves the index with zero
\* documents whatever it held; and the only value it yields is the final 100.
C11_EmptyRoot ==
    [][\A u \in Runs : EmptyRootRun(u)' =>
          /\ i'[u] = 0
          /\ progress'[u] = IF pc'[u] = "done" THEN <<Final100>> ELSE << >>
          /\ pc'[u] \in {"committed", "done"} => u \in Range(commits')
          /\ EmptyRootRun(u) => pc'[u] \in {"loop", "committed", "done"}
          /\ CommitStep(u) => (writer'[u].adds = {} /\ index' = {})]_vars

C11_Witness ==
    \E u \in Runs :
        /\ EmptyRootRun(u)
        /\ pc[u] = "done"
        /\ snap[u] # {}
        /\ commits = <<1, u>>
        /\ index = {}
        /\ progress[u] = <<Final100>>

SearchStep == results' # results

\* C13 as claimed: multi-term queries are boolean-OR.  A search for a query
\* of two or more terms, with top_n no smaller than the index, returns every
\* indexed document that holds at least one of the terms in content or in
\* filepath_search.
C13_MultiTermOr ==
    [][(SearchStep /\ Len(results'.query) >= 2 /\ results'.top_n >= Cardinality(index)) =>
          HitPaths(results'.hits) =
              {d.filepath : d \in {e \in index :
                  \E k \in 1..Len(results'.query) : TermMatches(e, results'.query[k])}}]_vars

\* The place of filepath p in a sequence of filepaths.
PlaceIn(seq, p) == CHOOSE k \in 1..Len(seq) : seq[k] = p

\* The result of a search step is at most top_n (filepath, score) pairs of
\* matching documents, each once and with its score, as many as top_n
\* allows, in descending score order, two hits of one score in the order of
\* their filepaths in seq, and no matching document left out has a higher
\* score than one that is included.
ResultShape(seq) ==
    LET hits == results'.hits
        query == results'.query
        M == {d \in index : Matches(d, query)}
        In == {d \in M : d.filepath \in HitPaths(hits)}
    IN  /\ Len(hits) <= results'.top_n
        /\ Len(hits) = Cardinality(In)
        /\ Len(hits) = results'.top_n \/ In = M
        /\ \A k \in 1..Len(hits) :
               \E d \in M : hits[k] = [filepath |-> d.filepath,
                                       score |-> score(index, d, query)]
        /\ \A k, l \in 1..Len(hits) :
               k < l =>
                   /\ hits[k].score >= hits[l].score
                   /\ hits[k].score = hits[l].score =>
                          PlaceIn(seq, hits[k].filepath) < PlaceIn(seq, hits[l].filepath)
        /\ \A d \in M \ In : \A e \in In :
               score(index, d, query) <= score(index, e, query)

HitOf(hits, p) == hits[CHOOSE k \in 1..Len(hits) : hits[k].filepath = p]

\* C15: ranking scenario.  With three indexed files whose contents are
\* "alpha beta", "alpha alpha gamma" and "delta", the query "alpha" with
\* top_n = 10 returns exactly the paths of the first two, each with a
\* positive score, and the score of the second is greater than or equal to
\* the score of the first.
C15_RankingScenario ==
    [][\A d1, d2, d3 \in index :
          (/\ SearchStep
           /\ results'.query = <<"alpha">> /\ results'.top_n = 10
           /\ Cardinality(index) = 3
           /\ d1.content = <<"alpha", "beta">>
           /\ d2.content = <<"alpha", "alpha", "gamma">>
           /\ d3.content = <<"delta">>) =>
              /\ Len(results'.hits) = 2
              /\ HitPaths(results'.hits) = {d1.filepath, d2.filepath}
              /\ HitOf(results'.hits, d1.filepath).score > 0
              /\ HitOf(results'.hits, d2.filepath).score
                     >= HitOf(results'.hits, d1.filepath).score]_vars

C15_Witness ==
    /\ Idle
    /\ {d.content : d \in index} = ScenarioTexts
    /\ PathsOf(index) = {"temp/a.txt", "temp/b.txt", "temp/d.txt"}
    /\ results.query = <<"alpha">> /\ results.top_n = 10
    /\ results.hits = <<[filepath |-> "temp/b.txt", score |-> 1205],
                        [filepath |-> "temp/a.txt", score |-> 1000]>>

\* C16: unique key invariant.  In every committed snapshot there is at most
\* one live document per file path: two documents of the index with one
\* filepath are one document, and each indexed filepath has one document
\* number.
C16_UniqueKey ==
    /\ \A d, e \in index : d.filepath = e.filepath => d = e
    /\ Len(docnums) = Cardinality(index)
    /\ Range(docnums) = PathsOf(index)

\* A file indexed by one update was modified and indexed again by the next:
\* its one document is the new one.
C16_Witness ==
    \E p \in Paths :
        /\ Len(commits) = 2
        /\ \E d \in snap[commits[2]] : d.filepath = p /\ d.modified = 1
        /\ \E d \in writer[commits[2]].adds : d.filepath = p /\ d.modified = 2
        /\ Cardinality(index) = 2
        /\ \A d \in DocsOf(index, p) : d.modified = 2
        /\ DocsOf(index, p) # {}

C18_StartupIndexed ==
    [][(app = "indexed" /\ app' = "running") =>
          \E u \in Runs :
              /\ consumer[u] = "main"
              /\ root[u] = "temp"
              /\ pc[u] \in {"committed", "done"}
              /\ u \in Range(commits)
              /\ DOMAIN files_to_index[u] # {}
              /\ index # {}]_vars

\* The step in which the clock runs unlock_ui.
UnlockStep == select_disabled /\ ~select_disabled'

\* C19 as claimed: progress reaches 100 before unlock.  When unlock_ui
\* removes the bar and switches to the search screen the bar's value has been
\* set to 100, and no value applied to the bar while it is shown is smaller
\* than the one it replaces.
C19_HundredBeforeUnlock ==
    [][/\ UnlockStep => progress_bar.value = Final100
       /\ (progress_bar.shown /\ progress_bar'.shown) =>
              LeqProgress(progress_bar.value, progress_bar'.value)]_vars

\* The folder input and the Select Folder button are disabled.
UiLocked == folder_input_disabled /\ select_disabled

\* C20 as claimed: UI unlock liveness.  Under fair scheduling of the worker
\* thread and of the clock, whenever confirm_selection has disabled the
\* folder input and the Select Folder button, unlock_ui eventually runs:
\* both are enabled again and the search screen is shown.
C20_UnlockLiveness ==
    UiLocked ~> (~folder_input_disabled /\ ~select_disabled /\ screen = "search")

====
